---------------------------- MODULE Spec2Model ----------------------------
(***************************************************************************)
(* Threshold / hysteresis monitors of src/src/environment.cpp.             *)
(*                                                                         *)
(* Four monitors (temperature high, temperature low, humidity high,        *)
(* humidity low) are evaluated once per tick against a reading; four       *)
(* accessors hand the counted events (or the latch) to a consumer.         *)
(* Readings, thresholds and hysteresis are doubles in the source; they     *)
(* are integers here (every value used is exactly representable and        *)
(* T - H, T + H are exact). A NaN reading is not modelled.                 *)
(*                                                                         *)
(* Spec, SpecToggle, SpecE2E and SpecPolled drive the interface of         *)
(* environment.h directly. SpecApp is the application of the same file:    *)
(* setup() with environment_init, then loop() statement by statement.      *)
(* SpecReporter and SpecReporters run environment_high_temperature_events  *)
(* statement by statement in one and in two threads beside the tick.       *)
(***************************************************************************)
EXTENDS Integers, Sequences, FiniteSets, TLC

(* ------------------------------ bounds -------------------------------- *)

\* Ticks are considered while the four counters together hold at most
\* this many events.
MaxEvents == 2

\* The configuration registry writes at most this many fields in a run.
MaxConfigWrites == 2

\* A registry that only switches monitors on and off does so at most this
\* many times in a run.
MaxToggles == 4

(* --------------------------- program constants ------------------------ *)

ExternalTemperatureHighDefault == 45
ExternalTemperatureLowDefault == 25
ExternalTemperatureHysteresisDefault == 5
ExternalHumidityHighDefault == 95
ExternalHumidityLowDefault == 25
ExternalHumidityHysteresisDefault == 5

\* _sensorConfig: the representable ranges handed to the registry.
minTemperature == -40
maxTemperature == 150
minHumidity == 0
maxHumidity == 100

\* size_t: counters and snapshots are unsigned and wrap. The target's
\* size_t is 32 bits wide; TLC's integers end at 2^31 - 1, so the modulus
\* kept here is 2^30 (wrap-around is preserved, at a narrower width).
SizeMax == 2^30

\* enum class EnvState
UNKNOWN == "UNKNOWN"
NORMAL == "NORMAL"
OUTSIDE_LIMIT == "OUTSIDE_LIMIT"
INSIDE_LIMIT == "INSIDE_LIMIT"
EnvState == {UNKNOWN, NORMAL, OUTSIDE_LIMIT, INSIDE_LIMIT}

\* The four (channel, direction) monitors, named by the prefix of their
\* statics: highState/highEvents/..., lowState/..., humhighState/...
Monitors == {"high", "low", "humhigh", "humlow"}
HighMonitors == {"high", "humhigh"}
LowMonitors == {"low", "humlow"}

(* ------------------------------ state --------------------------------- *)

VARIABLES
    config,      \* _environmentConfig
    state,       \* highState, lowState, humhighState, humlowState
    events,      \* highEvents, lowEvents, humhighEvents, humlowEvents
    eventsLast,  \* highEventsLast, ...
    latch,       \* highLatch, lowLatch, humhighLatch, humlowLatch
    env,         \* the Environment of the tick just made (NoEnv otherwise)
    ret,         \* the value the accessor just called returned (0 otherwise)
    op,          \* the operation just made: "init", "tick", "config" or a monitor
    crossings,   \* history: NORMAL -> OUTSIDE_LIMIT moves since the monitor's accessor was last called
    covered,     \* history: the value of crossings the accessor just called found
    again,       \* history: the accessor just called was also the operation before it
    writes,      \* number of registry writes so far
    script,      \* readings a scripted sensor still has to deliver (<<>>: free sensor)
    registerResults, \* results of the registerModule calls made so far
    initResults,     \* results environment_init has returned so far
    pc,          \* the statement of setup()/loop() the application is at ("none": no application)
    triggers,    \* names given to triggerLocPub in the current iteration of loop()
    rets,        \* what the four accessors returned to the envState() last run
    oldPowerState,   \* powerState()'s static
    lastPwr,     \* history: the name of the last power trigger ("": none yet)
    source,      \* the power source the powerState() just run read ("" otherwise)
    rpc,         \* per reporting thread: the statement of the accessor it is at
    capture,     \* per reporting thread: the accessor's local eventsCapture
    delta,       \* per reporting thread: the accessor's local eventsCount
    returned     \* history: sum (as a size_t) of the values returned to reporting threads

\* What environment_init appends to.
boot == <<registerResults, initResults>>

\* What the application's setup() and loop() own.
application == <<pc, triggers, rets, oldPowerState, lastPwr, source>>

\* What the reporting threads own.
reporting == <<rpc, capture, delta, returned>>

vars == <<config, state, events, eventsLast, latch, env, ret, op, crossings,
          covered, again, writes, script, registerResults, initResults, pc,
          triggers, rets, oldPowerState, lastPwr, source, rpc, capture,
          delta, returned>>

\* The value of env outside a tick (no reading is 0 in this model).
NoEnv == [Temperature |-> 0, Humidity |-> 0]

(* ----------------------------- inputs --------------------------------- *)

\* Readings get_environment() may deliver. Each scale holds, for the default
\* thresholds, the low threshold, a value inside the low band, the low
\* band's end, the high band's end, a value inside the high band and the
\* high threshold.
Temps == <<25, 26, 30, 40, 44, 45>>
Hums == <<25, 27, 30, 90, 93, 95>>

\* Every temperature is delivered with the humidity of the same zone and
\* with the humidity of the mirrored zone.
Environments ==
    UNION {{[Temperature |-> Temps[i], Humidity |-> Hums[j]] :
                j \in {i, Len(Hums) + 1 - i}} : i \in DOMAIN Temps}

\* Values the registry may write, all inside the registered ranges.
TempThresholds == {ExternalTemperatureLowDefault, ExternalTemperatureHighDefault}
TempHysteresis == {0, ExternalTemperatureHysteresisDefault}
HumThresholds == {ExternalHumidityLowDefault, ExternalHumidityHighDefault}
HumHysteresis == {0, ExternalHumidityHysteresisDefault}

(* --------------------------- configuration ---------------------------- *)

DefaultConfig ==
    [ highThreshold    |-> ExternalTemperatureHighDefault,
      highEnable       |-> FALSE,
      highLatch        |-> TRUE,
      lowThreshold     |-> ExternalTemperatureLowDefault,
      lowEnable        |-> FALSE,
      lowLatch         |-> TRUE,
      hysteresis       |-> ExternalTemperatureHysteresisDefault,
      humhighThreshold |-> ExternalHumidityHighDefault,
      humhighEnable    |-> FALSE,
      humhighLatch     |-> TRUE,
      humlowThreshold  |-> ExternalHumidityLowDefault,
      humlowEnable     |-> FALSE,
      humlowLatch      |-> TRUE,
      humhysteresis    |-> ExternalHumidityHysteresisDefault ]

\* The members of the "env_trig" group and the range each is registered with.
InRange(lo, v, hi) == lo <= v /\ v <= hi

FieldValues(f) ==
    CASE f \in {"highThreshold", "lowThreshold"} ->
            {v \in TempThresholds : InRange(minTemperature, v, maxTemperature)}
      [] f = "hysteresis" ->
            {v \in TempHysteresis : InRange(0, v, maxTemperature - minTemperature)}
      [] f \in {"humhighThreshold", "humlowThreshold"} ->
            {v \in HumThresholds : InRange(minHumidity, v, maxHumidity)}
      [] f = "humhysteresis" ->
            {v \in HumHysteresis : InRange(0, v, maxHumidity - minHumidity)}
      [] OTHER -> BOOLEAN

\* The configuration of one monitor, read through its own fields.
Threshold(c, m) == c[m \o "Threshold"]
Enable(c, m) == c[m \o "Enable"]
LatchMode(c, m) == c[m \o "Latch"]
Hysteresis(c, m) == IF m \in {"high", "low"} THEN c.hysteresis ELSE c.humhysteresis
Reading(e, m) == IF m \in {"high", "low"} THEN e.Temperature ELSE e.Humidity

(* ------------------- evaluate_user_environment ------------------------ *)

\* One monitor's statics as a record.
Mon(s, n, l) == [state |-> s, events |-> n, latch |-> l]

\* EvaluateHigh with the crossing test of NORMAL written > instead of >=.
EvaluateHigh_StrictCrossing(c, s, n, l, e) ==
    IF ~c.highEnable THEN Mon(s, n, l)
    ELSE CASE s \in {UNKNOWN, NORMAL} ->
                IF e.Temperature > c.highThreshold
                THEN Mon(OUTSIDE_LIMIT, (n + 1) % SizeMax, TRUE)
                ELSE Mon(NORMAL, n, l)
           [] s = OUTSIDE_LIMIT ->
                IF e.Temperature < c.highThreshold
                THEN Mon(INSIDE_LIMIT, n, l)
                ELSE Mon(s, n, l)
           [] s = INSIDE_LIMIT ->
                IF e.Temperature <= c.highThreshold - c.hysteresis
                THEN Mon(NORMAL, n, FALSE)
                ELSE IF e.Temperature >= c.highThreshold
                     THEN Mon(OUTSIDE_LIMIT, n, l)
                     ELSE Mon(s, n, l)
\* EvaluateHigh counting the crossing without setting the latch.
EvaluateHigh_LatchNotSet(c, s, n, l, e) ==
    IF ~c.highEnable THEN Mon(s, n, l)
    ELSE CASE s \in {UNKNOWN, NORMAL} ->
                IF e.Temperature >= c.highThreshold
                THEN Mon(OUTSIDE_LIMIT, (n + 1) % SizeMax, l)
                ELSE Mon(NORMAL, n, l)
           [] s = OUTSIDE_LIMIT ->
                IF e.Temperature < c.highThreshold
                THEN Mon(INSIDE_LIMIT, n, l)
                ELSE Mon(s, n, l)
           [] s = INSIDE_LIMIT ->
                IF e.Temperature <= c.highThreshold - c.hysteresis
                THEN Mon(NORMAL, n, FALSE)
                ELSE IF e.Temperature >= c.highThreshold
                     THEN Mon(OUTSIDE_LIMIT, n, l)
                     ELSE Mon(s, n, l)

\* Temperature, high threshold.
EvaluateHigh(c, s, n, l, e) ==
    IF ~c.highEnable THEN Mon(s, n, l)
    ELSE CASE s \in {UNKNOWN, NORMAL} ->
                IF e.Temperature >= c.highThreshold
                THEN Mon(OUTSIDE_LIMIT, (n + 1) % SizeMax, TRUE)
                ELSE Mon(NORMAL, n, l)
           [] s = OUTSIDE_LIMIT ->
                IF e.Temperature < c.highThreshold
                THEN Mon(INSIDE_LIMIT, n, l)
                ELSE Mon(s, n, l)
           [] s = INSIDE_LIMIT ->
                IF e.Temperature <= c.highThreshold - c.hysteresis
                THEN Mon(NORMAL, n, FALSE)
                ELSE IF e.Temperature >= c.highThreshold
                     THEN Mon(OUTSIDE_LIMIT, n, l)
                     ELSE Mon(s, n, l)

\* EvaluateLow with the recovery test of INSIDE_LIMIT forgetting the hysteresis.
EvaluateLow_NoHysteresis(c, s, n, l, e) ==
    IF ~c.lowEnable THEN Mon(s, n, l)
    ELSE CASE s \in {UNKNOWN, NORMAL} ->
                IF e.Temperature <= c.lowThreshold
                THEN Mon(OUTSIDE_LIMIT, (n + 1) % SizeMax, TRUE)
                ELSE Mon(NORMAL, n, l)
           [] s = OUTSIDE_LIMIT ->
                IF e.Temperature > c.lowThreshold
                THEN Mon(INSIDE_LIMIT, n, l)
                ELSE Mon(s, n, l)
           [] s = INSIDE_LIMIT ->
                IF e.Temperature >= c.lowThreshold
                THEN Mon(NORMAL, n, FALSE)
                ELSE IF e.Temperature <= c.lowThreshold
                     THEN Mon(OUTSIDE_LIMIT, n, l)
                     ELSE Mon(s, n, l)

\* EvaluateLow without the test of lowEnable.
EvaluateLow_AlwaysEnabled(c, s, n, l, e) ==
    CASE s \in {UNKNOWN, NORMAL} ->
            IF e.Temperature <= c.lowThreshold
            THEN Mon(OUTSIDE_LIMIT, (n + 1) % SizeMax, TRUE)
            ELSE Mon(NORMAL, n, l)
      [] s = OUTSIDE_LIMIT ->
            IF e.Temperature > c.lowThreshold
            THEN Mon(INSIDE_LIMIT, n, l)
            ELSE Mon(s, n, l)
      [] s = INSIDE_LIMIT ->
            IF e.Temperature >= c.lowThreshold + c.hysteresis
            THEN Mon(NORMAL, n, FALSE)
            ELSE IF e.Temperature <= c.lowThreshold
                 THEN Mon(OUTSIDE_LIMIT, n, l)
                 ELSE Mon(s, n, l)
\* EvaluateLow recovering from OUTSIDE_LIMIT to NORMAL in one evaluation.
EvaluateLow_SkipsInside(c, s, n, l, e) ==
    IF ~c.lowEnable THEN Mon(s, n, l)
    ELSE CASE s \in {UNKNOWN, NORMAL} ->
                IF e.Temperature <= c.lowThreshold
                THEN Mon(OUTSIDE_LIMIT, (n + 1) % SizeMax, TRUE)
                ELSE Mon(NORMAL, n, l)
           [] s = OUTSIDE_LIMIT ->
                IF e.Temperature > c.lowThreshold
                THEN IF e.Temperature >= c.lowThreshold + c.hysteresis
                     THEN Mon(NORMAL, n, FALSE)
                     ELSE Mon(INSIDE_LIMIT, n, l)
                ELSE Mon(s, n, l)
           [] s = INSIDE_LIMIT ->
                IF e.Temperature >= c.lowThreshold + c.hysteresis
                THEN Mon(NORMAL, n, FALSE)
                ELSE IF e.Temperature <= c.lowThreshold
                     THEN Mon(OUTSIDE_LIMIT, n, l)
                     ELSE Mon(s, n, l)

\* Temperature, low threshold.
EvaluateLow(c, s, n, l, e) ==
    IF ~c.lowEnable THEN Mon(s, n, l)
    ELSE CASE s \in {UNKNOWN, NORMAL} ->
                IF e.Temperature <= c.lowThreshold
                THEN Mon(OUTSIDE_LIMIT, (n + 1) % SizeMax, TRUE)
                ELSE Mon(NORMAL, n, l)
           [] s = OUTSIDE_LIMIT ->
                IF e.Temperature > c.lowThreshold
                THEN Mon(INSIDE_LIMIT, n, l)
                ELSE Mon(s, n, l)
           [] s = INSIDE_LIMIT ->
                IF e.Temperature >= c.lowThreshold + c.hysteresis
                THEN Mon(NORMAL, n, FALSE)
                ELSE IF e.Temperature <= c.lowThreshold
                     THEN Mon(OUTSIDE_LIMIT, n, l)
                     ELSE Mon(s, n, l)

\* EvaluateHumHigh counting the move from INSIDE_LIMIT back to OUTSIDE_LIMIT.
EvaluateHumHigh_CountsRecrossing(c, s, n, l, e) ==
    IF ~c.humhighEnable THEN Mon(s, n, l)
    ELSE CASE s \in {UNKNOWN, NORMAL} ->
                IF e.Humidity >= c.humhighThreshold
                THEN Mon(OUTSIDE_LIMIT, (n + 1) % SizeMax, TRUE)
                ELSE Mon(NORMAL, n, l)
           [] s = OUTSIDE_LIMIT ->
                IF e.Humidity < c.humhighThreshold
                THEN Mon(INSIDE_LIMIT, n, l)
                ELSE Mon(s, n, l)
           [] s = INSIDE_LIMIT ->
                IF e.Humidity <= c.humhighThreshold - c.humhysteresis
                THEN Mon(NORMAL, n, FALSE)
                ELSE IF e.Humidity >= c.humhighThreshold
                     THEN Mon(OUTSIDE_LIMIT, (n + 1) % SizeMax, l)
                     ELSE Mon(s, n, l)
\* EvaluateHumHigh leaving UNKNOWN for NORMAL without comparing the reading.
EvaluateHumHigh_UnknownSettles(c, s, n, l, e) ==
    IF ~c.humhighEnable THEN Mon(s, n, l)
    ELSE CASE s = UNKNOWN -> Mon(NORMAL, n, l)
           [] s = NORMAL ->
                IF e.Humidity >= c.humhighThreshold
                THEN Mon(OUTSIDE_LIMIT, (n + 1) % SizeMax, TRUE)
                ELSE Mon(NORMAL, n, l)
           [] s = OUTSIDE_LIMIT ->
                IF e.Humidity < c.humhighThreshold
                THEN Mon(INSIDE_LIMIT, n, l)
                ELSE Mon(s, n, l)
           [] s = INSIDE_LIMIT ->
                IF e.Humidity <= c.humhighThreshold - c.humhysteresis
                THEN Mon(NORMAL, n, FALSE)
                ELSE IF e.Humidity >= c.humhighThreshold
                     THEN Mon(OUTSIDE_LIMIT, n, l)
                     ELSE Mon(s, n, l)

\* Humidity, high threshold.
EvaluateHumHigh(c, s, n, l, e) ==
    IF ~c.humhighEnable THEN Mon(s, n, l)
    ELSE CASE s \in {UNKNOWN, NORMAL} ->
                IF e.Humidity >= c.humhighThreshold
                THEN Mon(OUTSIDE_LIMIT, (n + 1) % SizeMax, TRUE)
                ELSE Mon(NORMAL, n, l)
           [] s = OUTSIDE_LIMIT ->
                IF e.Humidity < c.humhighThreshold
                THEN Mon(INSIDE_LIMIT, n, l)
                ELSE Mon(s, n, l)
           [] s = INSIDE_LIMIT ->
                IF e.Humidity <= c.humhighThreshold - c.humhysteresis
                THEN Mon(NORMAL, n, FALSE)
                ELSE IF e.Humidity >= c.humhighThreshold
                     THEN Mon(OUTSIDE_LIMIT, n, l)
                     ELSE Mon(s, n, l)

\* EvaluateHumLow clearing the latch as soon as the reading is back over
\* the threshold.
EvaluateHumLow_EarlyClear(c, s, n, l, e) ==
    IF ~c.humlowEnable THEN Mon(s, n, l)
    ELSE CASE s \in {UNKNOWN, NORMAL} ->
                IF e.Humidity <= c.humlowThreshold
                THEN Mon(OUTSIDE_LIMIT, (n + 1) % SizeMax, TRUE)
                ELSE Mon(NORMAL, n, l)
           [] s = OUTSIDE_LIMIT ->
                IF e.Humidity > c.humlowThreshold
                THEN Mon(INSIDE_LIMIT, n, FALSE)
                ELSE Mon(s, n, l)
           [] s = INSIDE_LIMIT ->
                IF e.Humidity >= c.humlowThreshold + c.humhysteresis
                THEN Mon(NORMAL, n, FALSE)
                ELSE IF e.Humidity <= c.humlowThreshold
                     THEN Mon(OUTSIDE_LIMIT, n, l)
                     ELSE Mon(s, n, l)
\* EvaluateHumLow comparing the temperature instead of the humidity.
EvaluateHumLow_ReadsTemperature(c, s, n, l, e) ==
    IF ~c.humlowEnable THEN Mon(s, n, l)
    ELSE CASE s \in {UNKNOWN, NORMAL} ->
                IF e.Temperature <= c.humlowThreshold
                THEN Mon(OUTSIDE_LIMIT, (n + 1) % SizeMax, TRUE)
                ELSE Mon(NORMAL, n, l)
           [] s = OUTSIDE_LIMIT ->
                IF e.Temperature > c.humlowThreshold
                THEN Mon(INSIDE_LIMIT, n, l)
                ELSE Mon(s, n, l)
           [] s = INSIDE_LIMIT ->
                IF e.Temperature >= c.humlowThreshold + c.humhysteresis
                THEN Mon(NORMAL, n, FALSE)
                ELSE IF e.Temperature <= c.humlowThreshold
                     THEN Mon(OUTSIDE_LIMIT, n, l)
                     ELSE Mon(s, n, l)

\* Humidity, low threshold.
EvaluateHumLow(c, s, n, l, e) ==
    IF ~c.humlowEnable THEN Mon(s, n, l)
    ELSE CASE s \in {UNKNOWN, NORMAL} ->
                IF e.Humidity <= c.humlowThreshold
                THEN Mon(OUTSIDE_LIMIT, (n + 1) % SizeMax, TRUE)
                ELSE Mon(NORMAL, n, l)
           [] s = OUTSIDE_LIMIT ->
                IF e.Humidity > c.humlowThreshold
                THEN Mon(INSIDE_LIMIT, n, l)
                ELSE Mon(s, n, l)
           [] s = INSIDE_LIMIT ->
                IF e.Humidity >= c.humlowThreshold + c.humhysteresis
                THEN Mon(NORMAL, n, FALSE)
                ELSE IF e.Humidity <= c.humlowThreshold
                     THEN Mon(OUTSIDE_LIMIT, n, l)
                     ELSE Mon(s, n, l)

\* The block of evaluate_user_environment that owns monitor m.
Evaluate(m, c, s, n, l, e) ==
    CASE m = "high"    -> EvaluateHigh(c, s, n, l, e)
      [] m = "low"     -> EvaluateLow(c, s, n, l, e)
      [] m = "humhigh" -> EvaluateHumHigh(c, s, n, l, e)
      [] m = "humlow"  -> EvaluateHumLow(c, s, n, l, e)

\* The statics of all four monitors after evaluate_user_environment(e).
Evaluated(e) ==
    [m \in Monitors |-> Evaluate(m, config, state[m], events[m], latch[m], e)]

Crossed(m, after) ==
    state[m] \in {UNKNOWN, NORMAL} /\ after[m].state = OUTSIDE_LIMIT

Total(n) == n["high"] + n["low"] + n["humhigh"] + n["humlow"]

evaluate_user_environment(e) ==
    LET after == Evaluated(e) IN
    /\ state' = [m \in Monitors |-> after[m].state]
    /\ events' = [m \in Monitors |-> after[m].events]
    /\ latch' = [m \in Monitors |-> after[m].latch]
    /\ crossings' = [m \in Monitors |->
                        crossings[m] + (IF Crossed(m, after) THEN 1 ELSE 0)]

(* ------------------------------ actions ------------------------------- *)

Statics ==
    /\ config = DefaultConfig
    /\ state = [m \in Monitors |-> NORMAL]
    /\ events = [m \in Monitors |-> 0]
    /\ eventsLast = [m \in Monitors |-> 0]
    /\ latch = [m \in Monitors |-> FALSE]
    /\ env = NoEnv
    /\ ret = 0
    /\ op = "init"
    /\ crossings = [m \in Monitors |-> 0]
    /\ covered = 0
    /\ again = FALSE
    /\ writes = 0

\* The reporting threads the model knows.
Reporters == {"reporter1", "reporter2"}

SYSTEM_ERROR_NONE == 0

\* The statics of the application and the locals of threads not started.
AppStatics ==
    /\ triggers = {}
    /\ rets = [m \in Monitors |-> 0]
    /\ oldPowerState = TRUE
    /\ lastPwr = ""
    /\ source = ""
    /\ rpc = [r \in Reporters |-> "load"]
    /\ capture = [r \in Reporters |-> 0]
    /\ delta = [r \in Reporters |-> 0]
    /\ returned = 0

\* environment_init has registered "env_trig"; the interface is called
\* directly, no application loop runs.
Registered ==
    /\ registerResults = <<SYSTEM_ERROR_NONE>>
    /\ initResults = <<SYSTEM_ERROR_NONE>>
    /\ pc = "none"

Init == Statics /\ AppStatics /\ Registered /\ script = <<>>

\* environment_tick, get_environment() having delivered e.
Tick(e) ==
    /\ evaluate_user_environment(e)
    /\ env' = e
    /\ ret' = 0
    /\ op' = "tick"
    /\ covered' = 0
    /\ again' = FALSE
    /\ UNCHANGED <<config, eventsLast, writes>>

\* environment_tick with a sensor that may deliver any reading.
environment_tick ==
    \E e \in Environments :
        /\ script = <<>>
        /\ Tick(e)
        /\ Total(events') <= MaxEvents
        /\ UNCHANGED <<script, boot, application, reporting>>

\* The registry delivers a new value of one of the members F of "env_trig".
Write(F) ==
    \E f \in F : \E v \in FieldValues(f) :
        /\ v # config[f]
        /\ config' = [config EXCEPT ![f] = v]
        /\ writes' = writes + 1
        /\ env' = NoEnv
        /\ ret' = 0
        /\ op' = "config"
        /\ covered' = 0
        /\ again' = FALSE
        /\ UNCHANGED <<state, events, eventsLast, latch, crossings, script>>

EnableFields == {m \o "Enable" : m \in Monitors}
LatchFields == {m \o "Latch" : m \in Monitors}

ConfigWrite ==
    /\ writes < MaxConfigWrites
    /\ Write(DOMAIN config)
    /\ UNCHANGED <<boot, application, reporting>>

\* A registry that only switches monitors on and off.
EnableWrite ==
    /\ writes < MaxToggles
    /\ Write(EnableFields)
    /\ UNCHANGED <<boot, application, reporting>>

\* What an accessor computes: the new snapshot and the value returned.
Bool2Size(b) == IF b THEN 1 ELSE 0

\* HighTemperatureEvents returning the counter instead of the delta.
HighTemperatureEvents_NoSubtraction(c, n, last, l) ==
    LET eventsCapture == n
        eventsCount == eventsCapture
    IN  [last |-> eventsCapture,
         ret |-> IF c.highLatch THEN Bool2Size(l) ELSE eventsCount]

\* HighTemperatureEvents reporting in latch mode whether the delta is non-zero.
HighTemperatureEvents_EdgeLatch(c, n, last, l) ==
    LET eventsCapture == n
        eventsCount == (eventsCapture - last) % SizeMax
    IN  [last |-> eventsCapture,
         ret |-> IF c.highLatch THEN Bool2Size(eventsCount > 0) ELSE eventsCount]

HighTemperatureEvents(c, n, last, l) ==
    LET eventsCapture == n
        eventsCount == (eventsCapture - last) % SizeMax
    IN  [last |-> eventsCapture,
         ret |-> IF c.highLatch THEN Bool2Size(l) ELSE eventsCount]

\* HighHumidityEvents leaving the snapshot as it was.
HighHumidityEvents_StaleSnapshot(c, n, last, l) ==
    LET eventsCapture == n
        eventsCount == (eventsCapture - last) % SizeMax
    IN  [last |-> last,
         ret |-> IF c.humhighLatch THEN Bool2Size(l) ELSE eventsCount]

HighHumidityEvents(c, n, last, l) ==
    LET eventsCapture == n
        eventsCount == (eventsCapture - last) % SizeMax
    IN  [last |-> eventsCapture,
         ret |-> IF c.humhighLatch THEN Bool2Size(l) ELSE eventsCount]

\* LowTemperatureEvents reporting in latch mode whether the delta is non-zero.
LowTemperatureEvents_EdgeLatch(c, n, last, l) ==
    LET eventsCapture == n
        eventsCount == (eventsCapture - last) % SizeMax
    IN  [last |-> eventsCapture,
         ret |-> IF c.lowLatch THEN Bool2Size(eventsCount > 0) ELSE eventsCount]

LowTemperatureEvents(c, n, last, l) ==
    LET eventsCapture == n
        eventsCount == (eventsCapture - last) % SizeMax
    IN  [last |-> eventsCapture,
         ret |-> IF c.lowLatch THEN Bool2Size(l) ELSE eventsCount]

LowHumidityEvents(c, n, last, l) ==
    LET eventsCapture == n
        eventsCount == (eventsCapture - last) % SizeMax
    IN  [last |-> eventsCapture,
         ret |-> IF c.humlowLatch THEN Bool2Size(l) ELSE eventsCount]

Accessor(m, r) ==
    /\ eventsLast' = [eventsLast EXCEPT ![m] = r.last]
    /\ ret' = r.ret
    /\ op' = m
    /\ env' = NoEnv
    /\ crossings' = [crossings EXCEPT ![m] = 0]
    /\ covered' = crossings[m]
    /\ again' = (op = m)
    /\ UNCHANGED <<config, state, events, latch, writes, script>>

environment_high_temperature_events ==
    /\ Accessor("high", HighTemperatureEvents(config, events["high"], eventsLast["high"], latch["high"]))
    /\ UNCHANGED <<boot, application, reporting>>

environment_high_humidity_events ==
    /\ Accessor("humhigh", HighHumidityEvents(config, events["humhigh"], eventsLast["humhigh"], latch["humhigh"]))
    /\ UNCHANGED <<boot, application, reporting>>

environment_low_temperature_events ==
    /\ Accessor("low", LowTemperatureEvents(config, events["low"], eventsLast["low"], latch["low"]))
    /\ UNCHANGED <<boot, application, reporting>>

environment_low_humidity_events ==
    /\ Accessor("humlow", LowHumidityEvents(config, events["humlow"], eventsLast["humlow"], latch["humlow"]))
    /\ UNCHANGED <<boot, application, reporting>>

Next ==
    \/ environment_tick
    \/ ConfigWrite
    \/ environment_high_temperature_events
    \/ environment_high_humidity_events
    \/ environment_low_temperature_events
    \/ environment_low_humidity_events

Spec == Init /\ [][Next]_vars

(* ---------------- monitors switched on and off only ------------------- *)

NextToggle ==
    \/ environment_tick
    \/ EnableWrite
    \/ environment_high_temperature_events
    \/ environment_high_humidity_events
    \/ environment_low_temperature_events
    \/ environment_low_humidity_events

SpecToggle == Init /\ [][NextToggle]_vars

(* ------------------------ end-to-end scenario ------------------------- *)

\* The temperatures the sensor delivers, one per tick, and the values the
\* temperature-high counter is expected to show after each.
E2EReadings == <<30, 46, 44, 40, 39>>
E2ECounters == <<0, 1, 1, 1, 1>>

InitE2E == Statics /\ AppStatics /\ Registered /\ script = E2EReadings

\* Before the first tick the registry sets flags; thresholds and
\* hysteresis keep their defaults.
E2EConfigure ==
    /\ script = E2EReadings
    /\ writes < MaxConfigWrites
    /\ Write(EnableFields \cup LatchFields)
    /\ UNCHANGED <<boot, application, reporting>>

\* environment_tick with the scripted temperature (any humidity), the
\* temperature-high monitor being enabled.
environment_tick_scripted ==
    \E e \in Environments :
        /\ script # <<>>
        /\ config.highEnable
        /\ Tick([e EXCEPT !.Temperature = Head(script)])
        /\ script' = Tail(script)
        /\ UNCHANGED <<boot, application, reporting>>

\* The single call of the temperature-high accessor after the last tick.
E2EReport ==
    /\ script = <<>>
    /\ op = "tick"
    /\ environment_high_temperature_events

NextE2E ==
    \/ E2EConfigure
    \/ environment_tick_scripted
    \/ E2EReport

SpecE2E == InitE2E /\ [][NextE2E]_vars

(* ------------- scripted sensor, accessors polled at will -------------- *)

NextPolled ==
    \/ E2EConfigure
    \/ environment_tick_scripted
    \/ environment_high_temperature_events
    \/ environment_high_humidity_events
    \/ environment_low_temperature_events
    \/ environment_low_humidity_events

SpecPolled == InitE2E /\ [][NextPolled]_vars

(* ---------- environment_high_temperature_events, by statement --------- *)

\* What every statement of the accessor run by a reporting thread leaves
\* alone, and the history it writes.
Statement(r, next) ==
    /\ rpc' = [rpc EXCEPT ![r] = next]
    /\ op' = "reporter"
    /\ env' = NoEnv
    /\ UNCHANGED <<config, state, events, latch, crossings, covered, again,
                   writes, script, boot, application>>

\* auto eventsCapture = highEvents.load();
Load(r) ==
    /\ rpc[r] = "load"
    /\ capture' = [capture EXCEPT ![r] = events["high"]]
    /\ ret' = 0
    /\ Statement(r, "subtract")
    /\ UNCHANGED <<eventsLast, delta, returned>>

\* The subtraction stopping at zero instead of wrapping.
Subtract_Saturating(r) ==
    /\ rpc[r] = "subtract"
    /\ delta' = [delta EXCEPT ![r] =
                    IF capture[r] >= eventsLast["high"]
                    THEN capture[r] - eventsLast["high"] ELSE 0]
    /\ ret' = 0
    /\ Statement(r, "store")
    /\ UNCHANGED <<eventsLast, capture, returned>>

\* auto eventsCount = eventsCapture - highEventsLast;
Subtract(r) ==
    /\ rpc[r] = "subtract"
    /\ delta' = [delta EXCEPT ![r] = (capture[r] - eventsLast["high"]) % SizeMax]
    /\ ret' = 0
    /\ Statement(r, "store")
    /\ UNCHANGED <<eventsLast, capture, returned>>

\* The snapshot taken from the counter again instead of from eventsCapture.
Store_Reloads(r) ==
    /\ rpc[r] = "store"
    /\ eventsLast' = [eventsLast EXCEPT !["high"] = events["high"]]
    /\ ret' = 0
    /\ Statement(r, "return")
    /\ UNCHANGED <<capture, delta, returned>>

\* highEventsLast = eventsCapture;
Store(r) ==
    /\ rpc[r] = "store"
    /\ eventsLast' = [eventsLast EXCEPT !["high"] = capture[r]]
    /\ ret' = 0
    /\ Statement(r, "return")
    /\ UNCHANGED <<capture, delta, returned>>

\* return (_environmentConfig.highLatch) ? highLatch : eventsCount;
Return(r) ==
    /\ rpc[r] = "return"
    /\ ret' = IF config.highLatch THEN Bool2Size(latch["high"]) ELSE delta[r]
    /\ returned' = (returned + ret') % SizeMax
    /\ Statement(r, "load")
    /\ UNCHANGED <<eventsLast, capture, delta>>

\* Reporting thread r runs the next statement of the accessor, calling
\* it again when it has returned; the threads report in non-latch mode.
Reporter(r) ==
    /\ ~config.highLatch
    /\ (Load(r) \/ Subtract(r) \/ Store(r) \/ Return(r))

\* Before any thread runs, the registry sets the flags of the
\* temperature-high monitor.
ReporterConfigure ==
    /\ op \in {"init", "config"}
    /\ writes < MaxConfigWrites
    /\ Write({"highEnable", "highLatch"})
    /\ UNCHANGED <<boot, application, reporting>>

\* One tick thread, one reporting thread.
NextReporter ==
    \/ ReporterConfigure
    \/ environment_tick
    \/ Reporter("reporter1")

\* The reporting thread keeps calling: it is not stopped for ever while it
\* has a statement to run.
SpecReporter ==
    Init /\ [][NextReporter]_vars /\ WF_vars(Reporter("reporter1"))

\* One tick thread on the scripted sensor, two reporting threads.
NextReporters ==
    \/ ReporterConfigure
    \/ environment_tick_scripted
    \/ Reporter("reporter1")
    \/ Reporter("reporter2")

SpecReporters == InitE2E /\ [][NextReporters]_vars

(* --------------------------- the application -------------------------- *)

\* What registerModule may return: 0, or a negative error code.
RegisterResults == {SYSTEM_ERROR_NONE, -1, -2}

\* environment_init swallowing the result of the registration.
Checked_Swallowed(r) == SYSTEM_ERROR_NONE

\* What environment_init returns when registerModule returned r: CHECK
\* returns a negative r at once; otherwise the function runs to its
\* return SYSTEM_ERROR_NONE.
Checked(r) == IF r < 0 THEN r ELSE SYSTEM_ERROR_NONE

\* environment_init, registerModule returning r.
environment_init(r) ==
    /\ registerResults' = Append(registerResults, r)
    /\ initResults' = Append(initResults, Checked(r))
    /\ env' = NoEnv
    /\ ret' = 0
    /\ op' = "environment_init"
    /\ covered' = 0
    /\ again' = FALSE
    /\ UNCHANGED <<config, state, events, eventsLast, latch, crossings,
                   writes, script>>

\* The registry holds "env_trig" (and so can write its members).
IsRegistered == \E i \in DOMAIN registerResults : registerResults[i] >= 0

\* The state in which main() calls setup().
InitApp ==
    /\ Statics /\ AppStatics /\ script = <<>>
    /\ registerResults = <<>>
    /\ initResults = <<>>
    /\ pc = "setup"

\* setup(): its last statement calls environment_init and drops the result.
setup ==
    \E r \in RegisterResults :
        /\ pc = "setup"
        /\ environment_init(r)
        /\ pc' = "environment_tick"
        /\ UNCHANGED <<triggers, rets, oldPowerState, lastPwr, source, reporting>>

\* loop(), first statement: environment_tick().
loop_environment_tick ==
    \E e \in Environments :
        /\ pc = "environment_tick"
        /\ Tick(e)
        /\ Total(events') <= MaxEvents
        /\ pc' = "envState"
        /\ triggers' = {}
        /\ rets' = [m \in Monitors |-> 0]
        /\ UNCHANGED <<script, boot, oldPowerState, lastPwr, source, reporting>>

\* The name envState() publishes for each monitor.
TriggerName(m) ==
    CASE m = "high"    -> "envtemp_h"
      [] m = "low"     -> "envtemp_l"
      [] m = "humhigh" -> "envhum_h"
      [] m = "humlow"  -> "envhum_l"

\* What the accessor of monitor m computes in the current state.
Events(m) ==
    CASE m = "high"    -> HighTemperatureEvents(config, events[m], eventsLast[m], latch[m])
      [] m = "low"     -> LowTemperatureEvents(config, events[m], eventsLast[m], latch[m])
      [] m = "humhigh" -> HighHumidityEvents(config, events[m], eventsLast[m], latch[m])
      [] m = "humlow"  -> LowHumidityEvents(config, events[m], eventsLast[m], latch[m])

\* envState() publishing for every accessor, whatever it returned.
Published_Always(r) == {TriggerName(m) : m \in Monitors}

\* The names envState() gives to triggerLocPub, r[m] being what the
\* accessor of monitor m returned.
Published(r) == {TriggerName(m) : m \in {n \in Monitors : r[n] # 0}}

\* envState(): the four accessors, each followed by its trigger.
envState ==
    /\ eventsLast' = [m \in Monitors |-> Events(m).last]
    /\ rets' = [m \in Monitors |-> Events(m).ret]
    /\ triggers' = triggers \cup Published(rets')
    /\ ret' = Events("humlow").ret
    /\ op' = "envState"
    /\ env' = NoEnv
    /\ crossings' = [m \in Monitors |-> 0]
    /\ covered' = 0
    /\ again' = FALSE
    /\ UNCHANGED <<config, state, events, latch, writes, script>>

\* loop(), second statement.
loop_envState ==
    /\ pc = "envState"
    /\ envState
    /\ pc' = "powerState"
    /\ UNCHANGED <<boot, oldPowerState, lastPwr, source, reporting>>

\* The values of power_source_t.
PowerSources ==
    {"POWER_SOURCE_UNKNOWN", "POWER_SOURCE_VIN", "POWER_SOURCE_USB_HOST",
     "POWER_SOURCE_USB_ADAPTER", "POWER_SOURCE_USB_OTG", "POWER_SOURCE_BATTERY"}

\* The switch of powerState().
newPowerState(ps) ==
    ps \in {"POWER_SOURCE_VIN", "POWER_SOURCE_USB_HOST",
            "POWER_SOURCE_USB_ADAPTER", "POWER_SOURCE_USB_OTG"}

\* powerState() naming its trigger after the new state.
PowerTrigger_Swapped(old) == IF old = TRUE THEN "pwr_r" ELSE "pwr_l"

\* The name powerState() publishes when the state remembered is old.
PowerTrigger(old) == IF old = TRUE THEN "pwr_l" ELSE "pwr_r"

\* powerState(), System.powerSource() returning ps.
powerState(ps) ==
    /\ IF oldPowerState # newPowerState(ps)
       THEN /\ triggers' = triggers \cup {PowerTrigger(oldPowerState)}
            /\ lastPwr' = PowerTrigger(oldPowerState)
            /\ oldPowerState' = newPowerState(ps)
       ELSE UNCHANGED <<triggers, lastPwr, oldPowerState>>
    /\ source' = ps
    /\ op' = "powerState"
    /\ UNCHANGED <<config, state, events, eventsLast, latch, env, ret,
                   crossings, covered, again, writes, script, rets>>

\* loop(), third statement.
loop_powerState ==
    \E ps \in PowerSources :
        /\ pc = "powerState"
        /\ powerState(ps)
        /\ pc' = "Tracker"
        /\ UNCHANGED <<boot, reporting>>

\* loop(), last statement: Tracker::instance().loop() with nothing for
\* "env_trig".
Tracker_loop ==
    /\ pc = "Tracker"
    /\ pc' = "environment_tick"
    /\ op' = "Tracker"
    /\ source' = ""
    /\ UNCHANGED <<config, state, events, eventsLast, latch, env, ret,
                   crossings, covered, again, writes, script, boot, triggers,
                   rets, oldPowerState, lastPwr, reporting>>

\* Tracker::instance().loop() delivering a new value of a member of
\* "env_trig": possible only if the group was registered.
Tracker_loop_config ==
    /\ pc = "Tracker"
    /\ IsRegistered
    /\ writes < MaxConfigWrites
    /\ Write(DOMAIN config)
    /\ pc' = "environment_tick"
    /\ source' = ""
    /\ UNCHANGED <<boot, triggers, rets, oldPowerState, lastPwr, reporting>>

NextApp ==
    \/ setup
    \/ loop_environment_tick
    \/ loop_envState
    \/ loop_powerState
    \/ Tracker_loop
    \/ Tracker_loop_config

SpecApp == InitApp /\ [][NextApp]_vars

(* ======================= properties checked ========================== *)

Cur(m) == Mon(state[m], events[m], latch[m])
After(m) == Mon(state'[m], events'[m], latch'[m])
IsAccessor(o) == o \in Monitors

\* The monitor records after each reading of seq, evaluated one per tick
\* from mon under configuration c.
RECURSIVE RunFrom(_, _, _, _)
RunFrom(m, c, mon, seq) ==
    IF seq = <<>> THEN <<>>
    ELSE LET e == [Temperature |-> Head(seq), Humidity |-> Head(seq)]
             next == Evaluate(m, c, mon.state, mon.events, mon.latch, e)
         IN  <<next>> \o RunFrom(m, c, next, Tail(seq))

\* The transition table of a High monitor, threshold T, hysteresis H.
HighRule(mon, v, T, H) ==
    CASE mon.state = NORMAL ->
            IF v >= T THEN Mon(OUTSIDE_LIMIT, mon.events + 1, TRUE) ELSE mon
      [] mon.state = OUTSIDE_LIMIT ->
            IF v < T THEN Mon(INSIDE_LIMIT, mon.events, mon.latch) ELSE mon
      [] mon.state = INSIDE_LIMIT ->
            IF v <= T - H THEN Mon(NORMAL, mon.events, FALSE)
            ELSE IF v >= T THEN Mon(OUTSIDE_LIMIT, mon.events, mon.latch)
            ELSE mon

\* The transition table of a Low monitor, threshold T, hysteresis H.
LowRule(mon, v, T, H) ==
    CASE mon.state = NORMAL ->
            IF v <= T THEN Mon(OUTSIDE_LIMIT, mon.events + 1, TRUE) ELSE mon
      [] mon.state = OUTSIDE_LIMIT ->
            IF v > T THEN Mon(INSIDE_LIMIT, mon.events, mon.latch) ELSE mon
      [] mon.state = INSIDE_LIMIT ->
            IF v >= T + H THEN Mon(NORMAL, mon.events, FALSE)
            ELSE IF v <= T THEN Mon(OUTSIDE_LIMIT, mon.events, mon.latch)
            ELSE mon

Rule(m, mon, v, T, H) ==
    IF m \in HighMonitors THEN HighRule(mon, v, T, H) ELSE LowRule(mon, v, T, H)

\* Monitor m is enabled, in NORMAL, with threshold T and hysteresis H.
NormalWith(m, T, H) ==
    /\ Enable(config, m)
    /\ state[m] = NORMAL
    /\ Threshold(config, m) = T
    /\ Hysteresis(config, m) = H

\* C1: every tick moves each enabled High monitor (temperature-high,
\* humidity-high) exactly as the High transition table says for the reading
\* of its channel, its threshold and its hysteresis: state, counter and
\* latch after the tick are the table's.
C1_HighEvaluation ==
    [][op' = "tick" =>
        \A m \in HighMonitors :
            (Enable(config, m) /\ state[m] # UNKNOWN) =>
                After(m) = HighRule(Cur(m), Reading(env', m),
                                    Threshold(config, m), Hysteresis(config, m))]_vars

\* Both High monitors have crossed and have just been evaluated in
\* INSIDE_LIMIT on readings inside their bands.
C1_Witness ==
    /\ op = "tick"
    /\ config.highEnable /\ config.humhighEnable
    /\ state["high"] = INSIDE_LIMIT /\ latch["high"] /\ events["high"] = 1
    /\ state["humhigh"] = INSIDE_LIMIT /\ latch["humhigh"] /\ events["humhigh"] = 1
    /\ env = [Temperature |-> 44, Humidity |-> 93]

\* C2 (sequence): from NORMAL with T = 25, H = 5 the readings 20, 26, 31
\* leave a Low monitor's latch set, set, cleared.
C2_Sequence ==
    \A m \in LowMonitors :
        NormalWith(m, 25, 5) =>
            LET r == RunFrom(m, config, Cur(m), <<20, 26, 31>>)
            IN  r[1].latch /\ r[2].latch /\ ~r[3].latch

\* C2: every tick moves each enabled Low monitor (temperature-low,
\* humidity-low) exactly as the mirrored transition table says, and with
\* T = 25, H = 5 the readings 20, 26, 31 clear the latch only at 31.
C2_LowEvaluation ==
    /\ [][op' = "tick" =>
            \A m \in LowMonitors :
                (Enable(config, m) /\ state[m] # UNKNOWN) =>
                    After(m) = LowRule(Cur(m), Reading(env', m),
                                       Threshold(config, m), Hysteresis(config, m))]_vars
    /\ []C2_Sequence

\* Both Low monitors, T = 25 and H = 5, have crossed and are now in
\* INSIDE_LIMIT with the latch set, on readings inside their bands.
C2_Witness ==
    /\ op = "tick"
    /\ config.lowEnable /\ config.humlowEnable
    /\ config.lowThreshold = 25 /\ config.hysteresis = 5
    /\ state["low"] = INSIDE_LIMIT /\ latch["low"]
    /\ state["humlow"] = INSIDE_LIMIT /\ latch["humlow"]
    /\ env = [Temperature |-> 26, Humidity |-> 27]

\* Readings used to hold a monitor at a constant value.
HeldValues == {Temps[i] : i \in DOMAIN Temps} \cup {Hums[i] : i \in DOMAIN Hums} \cup {20, 50}

Beyond(m, v) ==
    IF m \in HighMonitors THEN v >= Threshold(config, m) ELSE v <= Threshold(config, m)

\* C3 (held reading): from NORMAL, a reading held at or beyond the
\* threshold counts one event at the first tick and none after it.
C3_Held ==
    \A m \in Monitors : \A v \in HeldValues :
        (Enable(config, m) /\ state[m] = NORMAL /\ Beyond(m, v)) =>
            LET r == RunFrom(m, config, Cur(m), <<v, v, v>>)
            IN  /\ r[1].events = events[m] + 1
                /\ r[2].events = events[m] + 1
                /\ r[3].events = events[m] + 1

\* C3 (re-crossing): High, T = 45, H = 5, readings 50, 44, 46 from NORMAL
\* count one event and end in OUTSIDE_LIMIT.
C3_Recrossing ==
    \A m \in HighMonitors :
        NormalWith(m, 45, 5) =>
            LET r == RunFrom(m, config, Cur(m), <<50, 44, 46>>)
            IN  /\ r[1].events = events[m] + 1
                /\ r[2].events = events[m] + 1 /\ r[2].state = INSIDE_LIMIT
                /\ r[3].events = events[m] + 1 /\ r[3].state = OUTSIDE_LIMIT

\* C3: a counter changes only in a tick, only by +1, and only when that
\* tick moves its monitor from NORMAL to OUTSIDE_LIMIT; a held reading and
\* a re-crossing from INSIDE_LIMIT therefore count one event.
C3_CounterSteps ==
    /\ [][\A m \in Monitors :
            events'[m] # events[m] =>
                /\ op' = "tick"
                /\ events'[m] = events[m] + 1
                /\ state[m] = NORMAL
                /\ state'[m] = OUTSIDE_LIMIT]_vars
    /\ [](C3_Held /\ C3_Recrossing)

\* A monitor has counted two events and is OUTSIDE_LIMIT, so it went
\* through INSIDE_LIMIT and NORMAL in between.
C3_Witness ==
    /\ op = "tick"
    /\ \E m \in Monitors :
        Enable(config, m) /\ events[m] = 2 /\ state[m] = OUTSIDE_LIMIT

\* The reading that ends the recovery of monitor m.
Recovered(m, v) ==
    IF m \in HighMonitors
    THEN v <= Threshold(config, m) - Hysteresis(config, m)
    ELSE v >= Threshold(config, m) + Hysteresis(config, m)

\* C4 (sequence): High, T = 45, H = 5, readings 50, 44, 41 from NORMAL
\* leave the latch set after each; the next reading 40 clears it.
C4_Sequence ==
    \A m \in HighMonitors :
        NormalWith(m, 45, 5) =>
            LET r == RunFrom(m, config, Cur(m), <<50, 44, 41, 40>>)
            IN  r[1].latch /\ r[2].latch /\ r[3].latch /\ ~r[4].latch

\* C4: a set latch is cleared only by a tick that finds its enabled
\* monitor in INSIDE_LIMIT with a reading <= T - H (Low: >= T + H); no
\* other operation and no other reading clears it.
C4_LatchHeld ==
    /\ [][\A m \in Monitors :
            (latch[m] /\ ~latch'[m]) =>
                /\ op' = "tick"
                /\ Enable(config, m)
                /\ state[m] = INSIDE_LIMIT
                /\ Recovered(m, Reading(env', m))]_vars
    /\ []C4_Sequence

\* Temperature-high, T = 45 and H = 5, has just been evaluated in
\* INSIDE_LIMIT on a reading inside the band (44) and its latch is still set.
C4_Witness ==
    /\ op = "tick"
    /\ config.highEnable
    /\ config.highThreshold = 45 /\ config.hysteresis = 5
    /\ env.Temperature = 44
    /\ state["high"] = INSIDE_LIMIT
    /\ latch["high"]
    /\ eventsLast["high"] = 0 /\ events["high"] = 1

Recovering(m) == state[m] \in {OUTSIDE_LIMIT, INSIDE_LIMIT}

\* C5: an accessor called in non-latch mode returns the number of
\* NORMAL -> OUTSIDE_LIMIT moves its monitor made since the accessor was
\* last called (since the start for the first call).
C5_NonLatchDelta ==
    (IsAccessor(op) /\ ~LatchMode(config, op)) => ret = covered

\* Non-latch mode: two crossings happened between two calls of an accessor
\* and the second call returned 2.
C5_Witness ==
    /\ IsAccessor(op)
    /\ ~LatchMode(config, op)
    /\ covered = 2
    /\ ret = 2

C7_AsStated ==
    IsAccessor(op) => ret = covered

C9_AsStated ==
    /\ op = "tick" => events["high"] = E2ECounters[Len(E2EReadings) - Len(script)]
    /\ op = "high" => ret = 1

\* C10: a tick leaves state, counter and latch of every disabled monitor
\* as they were; a registry write (disabling and enabling included) leaves
\* those of every monitor as they were; and the tick of an enabled monitor
\* starts from the state the monitor holds, frozen or not.
C10_Frozen ==
    [][/\ op' = "tick" =>
            \A m \in Monitors :
                IF Enable(config, m)
                THEN state[m] # UNKNOWN =>
                        After(m) = Rule(m, Cur(m), Reading(env', m),
                                        Threshold(config, m), Hysteresis(config, m))
                ELSE After(m) = Cur(m)
       /\ op' = "config" => \A m \in Monitors : After(m) = Cur(m)]_vars

\* Temperature-high and temperature-low are both enabled and both in
\* OUTSIDE_LIMIT with the latch set, right after a registry write. With the
\* default thresholds (25 < 45) no reading keeps both outside, so one of
\* them was disabled while OUTSIDE_LIMIT, sat through a tick that would
\* have moved it, and has been enabled again in the frozen state.
C10_Witness ==
    /\ op = "config"
    /\ config.highEnable /\ config.lowEnable
    /\ state["high"] = OUTSIDE_LIMIT /\ latch["high"] /\ events["high"] = 1
    /\ state["low"] = OUTSIDE_LIMIT /\ latch["low"] /\ events["low"] = 1


\* C11: every call of environment_init makes exactly one registerModule
\* call (no retry); it returns the registration's error when the
\* registration failed and SYSTEM_ERROR_NONE only when it succeeded; and
\* the monitors' states, counters, latches and snapshots are after the
\* call what they were before it (their constructed values, setup() being
\* the caller).
C11_InitResult ==
    /\ Len(registerResults) = Len(initResults)
    /\ \A i \in DOMAIN initResults :
          /\ registerResults[i] < 0 =>
                initResults[i] = registerResults[i] /\ initResults[i] # SYSTEM_ERROR_NONE
          /\ initResults[i] = SYSTEM_ERROR_NONE => registerResults[i] >= 0
    /\ op = "environment_init" =>
          /\ state = [m \in Monitors |-> NORMAL]
          /\ events = [m \in Monitors |-> 0]
          /\ latch = [m \in Monitors |-> FALSE]
          /\ eventsLast = [m \in Monitors |-> 0]

\* setup() has just run environment_init, the registration failed with -1
\* and environment_init returned -1.
C11_Witness ==
    /\ op = "environment_init"
    /\ registerResults = <<-1>>
    /\ initResults = <<-1>>
    /\ ~IsRegistered


\* The members of "env_trig" the block of monitor m reads.
OwnFields(m) ==
    {m \o "Threshold", m \o "Enable",
     IF m \in {"high", "low"} THEN "hysteresis" ELSE "humhysteresis"}

\* Reading e with the channel monitor m does not watch blanked.
Masked(e, m) ==
    IF m \in {"high", "low"} THEN [e EXCEPT !.Humidity = 0]
    ELSE [e EXCEPT !.Temperature = 0]

\* The orders in which four blocks can be evaluated.
Orders == {o \in [1..4 -> Monitors] : \A m \in Monitors : \E i \in 1..4 : o[i] = m}

\* The statics st after the block of monitor m has run on reading e.
Block(m, st, e) ==
    [st EXCEPT ![m] = Evaluate(m, config, st[m].state, st[m].events, st[m].latch, e)]

\* Running the four blocks on reading e one after the other in order o,
\* from statics st, ends in statics result (s1, s2, s3: the statics after
\* the first, the second and the third block).
InOrder(o, st, e, result) ==
    \A s1 \in {Block(o[1], st, e)} :
    \A s2 \in {Block(o[2], s1, e)} :
    \A s3 \in {Block(o[3], s2, e)} :
        Block(o[4], s3, e) = result

\* C12: a tick leaves each monitor as its own block makes it from the
\* monitor's own statics and the reading of its own channel (temperature
\* for the temperature monitors, humidity for the humidity monitors),
\* whatever value any member of the configuration the block does not own
\* has; running the four blocks in any of the 24 orders gives the tick's
\* result; and an accessor call changes the lastSnapshot of its own monitor
\* at most: no state, counter or latch, and no other monitor's lastSnapshot.
C12_Frame ==
    [][/\ op' = "tick" =>
            /\ \A m \in Monitors :
               \A f \in DOMAIN config \ OwnFields(m) :
               \A v \in FieldValues(f) :
                  After(m) = Evaluate(m, [config EXCEPT ![f] = v], state[m],
                                      events[m], latch[m], Masked(env', m))
            /\ \A before \in {[m \in Monitors |-> Cur(m)]} :
               \A after \in {[m \in Monitors |-> After(m)]} :
               \A o \in Orders : InOrder(o, before, env', after)
       /\ IsAccessor(op') =>
            /\ UNCHANGED <<state, events, latch>>
            /\ \A m \in Monitors \ {op'} : eventsLast'[m] = eventsLast[m]
      ]_vars

\* One tick has moved a temperature monitor and a humidity monitor, each on
\* its own channel's reading.
C12_Witness ==
    /\ op = "tick"
    /\ env = [Temperature |-> 46, Humidity |-> 25]
    /\ state["high"] = OUTSIDE_LIMIT /\ events["high"] = 1
    /\ state["humlow"] = OUTSIDE_LIMIT /\ events["humlow"] = 1
    /\ crossings["high"] = 1 /\ crossings["humlow"] = 1


\* C13 as stated: with one tick thread and one reporting thread in
\* non-latch mode, at every point lastSnapshot <= counter and the sum of the
\* values the accessor has returned equals lastSnapshot.
C13_AsStated ==
    ~config.highLatch =>
        /\ eventsLast["high"] <= events["high"]
        /\ returned = eventsLast["high"]

\* The delta the reporting thread has written into lastSnapshot and not
\* yet returned.
Pending(r) == IF rpc[r] = "return" THEN delta[r] ELSE 0

\* C13 as amended: with one tick thread and one reporting thread in
\* non-latch mode, at every point lastSnapshot <= counter, and the sum of
\* the values returned equals lastSnapshot except between the accessor's
\* write of lastSnapshot and its return, where lastSnapshot is ahead by
\* exactly the delta about to be returned; every event counted is
\* eventually part of the sum returned (once, the sum never exceeding the
\* counter) when the reporting thread keeps calling.
C13_NoLostEvent ==
    /\ [](~config.highLatch =>
            /\ eventsLast["high"] <= events["high"]
            /\ returned + Pending("reporter1") = eventsLast["high"]
            /\ returned <= events["high"])
    /\ \A n \in 1..MaxEvents :
          (~config.highLatch /\ events["high"] >= n) ~> (returned >= n)

\* A tick counted an event after the accessor's load and before its write
\* of lastSnapshot: the event is not part of this call's delta and is left
\* for the next call (one event was returned by an earlier call).
C13_Witness ==
    /\ ~config.highLatch
    /\ rpc["reporter1"] = "store"
    /\ capture["reporter1"] = 1
    /\ delta["reporter1"] = 0
    /\ events["high"] = 2
    /\ returned = 1


\* Thread r runs the subtraction in this step.
Subtracts(r) == rpc[r] = "subtract" /\ rpc'[r] = "store"

\* C14: with two reporting threads in the same accessor, a thread whose
\* subtraction finds a lastSnapshot newer (greater) than the counter value
\* it captured computes the delta wrapped below zero, SizeMax minus the
\* difference, and that is the value it goes on to return; a subtraction
\* that finds an older or equal snapshot computes the plain difference.
C14_Wraps ==
    [][\A r \in Reporters :
          /\ Subtracts(r) =>
                delta'[r] = IF eventsLast["high"] > capture[r]
                            THEN SizeMax - (eventsLast["high"] - capture[r])
                            ELSE capture[r] - eventsLast["high"]
          /\ (rpc[r] = "return" /\ rpc'[r] = "load" /\ ~config.highLatch) =>
                ret' = delta[r]
      ]_vars

\* Both calls have returned; one event was counted; the call that loaded
\* the counter before the tick and subtracted after the other call's write
\* returned SizeMax - 1, and the sum returned is not the number counted.
C14_Witness ==
    /\ ~config.highLatch
    /\ rpc = [r \in Reporters |-> "load"]
    /\ events["high"] = 1
    /\ op = "reporter"
    /\ ret = SizeMax - 1
    /\ returned # events["high"]


\* The order of the statements of setup() and loop().
Follows ==
    {<<"setup", "environment_tick">>, <<"environment_tick", "envState">>,
     <<"envState", "powerState">>, <<"powerState", "Tracker">>,
     <<"Tracker", "environment_tick">>}

\* C15: the application runs environment_tick, envState, powerState and
\* Tracker loop in that order, again and again; envState polls each of
\* the four accessors once (each snapshot is brought up to its counter) and
\* publishes a channel's name exactly when that channel's accessor returned
\* non-zero; and a monitor that the tick of an iteration took from NORMAL to
\* OUTSIDE_LIMIT has its channel's name published by the envState of the
\* same iteration, in latch mode and in non-latch mode.
C15_TriggerPerCrossing ==
    [][/\ pc' # pc => <<pc, pc'>> \in Follows
       /\ pc = "envState" =>
            \A m \in Monitors :
                /\ eventsLast'[m] = events[m]
                /\ TriggerName(m) \in triggers' <=> rets'[m] # 0
                /\ crossings[m] > 0 => TriggerName(m) \in triggers'
       /\ pc = "environment_tick" =>
            /\ triggers' = {}
            /\ \A m \in Monitors :
                  crossings'[m] > 0 <=>
                      (Enable(config, m) /\ state[m] = NORMAL
                       /\ state'[m] = OUTSIDE_LIMIT)
      ]_vars

\* envState has just published "envtemp_h" for a crossing the tick of the
\* same iteration counted, the accessor in non-latch mode returning 1.
C15_Witness ==
    /\ pc = "powerState"
    /\ op = "envState"
    /\ ~config.highLatch
    /\ state["high"] = OUTSIDE_LIMIT
    /\ events["high"] = 1
    /\ rets["high"] = 1
    /\ triggers = {"envtemp_h"}


\* The states a monitor is in after an enabled evaluation.
Known == {NORMAL, OUTSIDE_LIMIT, INSIDE_LIMIT}

\* The tick just made was the first one: the first enabled evaluation of
\* every monitor that is enabled (the flags are written before it).
FirstTick == op = "tick" /\ Len(script) = Len(E2EReadings) - 1

\* C16: the first enabled evaluation of a monitor counts a reading at or
\* beyond the threshold (counter 1, latch set, OUTSIDE_LIMIT) and leaves
\* the monitor in NORMAL with nothing counted otherwise; an evaluation from
\* UNKNOWN of an enabled monitor gives what the evaluation from NORMAL
\* gives, for every reading; an enabled evaluation from any of the four states on any reading ends in
\* NORMAL, OUTSIDE_LIMIT or INSIDE_LIMIT; and no monitor is ever in UNKNOWN.
C16_FirstEvaluation ==
    \A m \in Monitors :
        /\ (FirstTick /\ Enable(config, m)) =>
              Cur(m) = IF Beyond(m, Reading(env, m))
                       THEN Mon(OUTSIDE_LIMIT, 1, TRUE)
                       ELSE Mon(NORMAL, 0, FALSE)
        /\ \A e \in Environments :
              Enable(config, m) =>
                  /\ Evaluate(m, config, UNKNOWN, events[m], latch[m], e)
                        = Evaluate(m, config, NORMAL, events[m], latch[m], e)
                  /\ \A s \in EnvState :
                        Evaluate(m, config, s, events[m], latch[m], e).state \in Known
        /\ state[m] \in Known

\* The first tick found the humidity at the humidity-high threshold: the
\* monitor counted it.
C16_Witness ==
    /\ FirstTick
    /\ config.humhighEnable
    /\ env.Humidity = config.humhighThreshold
    /\ Cur("humhigh") = Mon(OUTSIDE_LIMIT, 1, TRUE)


\* C17: in every state, for each monitor, the latch is set if and only if
\* the monitor is in OUTSIDE_LIMIT or INSIDE_LIMIT (clear if and only if it
\* is in NORMAL or UNKNOWN), whatever ticks, accessor calls and registry
\* writes (enable flags, thresholds, hysteresis, latch flags) came before.
C17_LatchIffOutside ==
    \A m \in Monitors :
        /\ latch[m] <=> state[m] \in {OUTSIDE_LIMIT, INSIDE_LIMIT}
        /\ ~latch[m] <=> state[m] \in {NORMAL, UNKNOWN}

\* The registry has just moved the threshold of the temperature-high
\* monitor while the monitor was in INSIDE_LIMIT with its latch set.
C17_Witness ==
    /\ op = "config"
    /\ config.highThreshold # ExternalTemperatureHighDefault
    /\ state["high"] = INSIDE_LIMIT
    /\ latch["high"]


\* The reading v is on the inner side of the threshold of monitor m.
Inside(m, v) ==
    IF m \in HighMonitors THEN v < Threshold(config, m) ELSE v > Threshold(config, m)

\* C18 as stated: a tick that gives an enabled monitor in OUTSIDE_LIMIT a
\* reading <= T - H (Low: >= T + H) moves it to INSIDE_LIMIT with the latch
\* still set.
C18_AsStated ==
    [][op' = "tick" =>
          \A m \in Monitors :
              (Enable(config, m) /\ state[m] = OUTSIDE_LIMIT
               /\ Recovered(m, Reading(env', m))) =>
                  After(m) = Mon(INSIDE_LIMIT, events[m], TRUE)
      ]_vars

\* C18 as amended: no tick takes a monitor from OUTSIDE_LIMIT to NORMAL or
\* clears the latch of a monitor in OUTSIDE_LIMIT: a reading <= T - H
\* (Low: >= T + H) moves the monitor to INSIDE_LIMIT if it is below T (Low:
\* above T) and leaves it in OUTSIDE_LIMIT if it equals T, which can happen
\* only when H = 0; the latch stays set and the counter unchanged either
\* way. A monitor reaches NORMAL, and its latch is cleared, only by a tick
\* that finds it in INSIDE_LIMIT with a reading <= T - H (Low: >= T + H):
\* recovery takes at least two ticks, also when H = 0.
C18_TwoTicks ==
    [][op' = "tick" =>
          \A m \in Monitors :
              /\ (Enable(config, m) /\ state[m] = OUTSIDE_LIMIT) =>
                    /\ state'[m] \in {OUTSIDE_LIMIT, INSIDE_LIMIT}
                    /\ latch'[m] /\ events'[m] = events[m]
                    /\ state'[m] = INSIDE_LIMIT <=> Inside(m, Reading(env', m))
                    /\ (Recovered(m, Reading(env', m)) /\ state'[m] = OUTSIDE_LIMIT) =>
                          /\ Hysteresis(config, m) = 0
                          /\ Reading(env', m) = Threshold(config, m)
              /\ ((state[m] # NORMAL /\ state'[m] = NORMAL) \/ (latch[m] /\ ~latch'[m])) =>
                    /\ state[m] = INSIDE_LIMIT /\ state'[m] = NORMAL /\ ~latch'[m]
                    /\ Enable(config, m)
                    /\ Recovered(m, Reading(env', m))
      ]_vars

\* Hysteresis 0: a tick found the temperature-high monitor in OUTSIDE_LIMIT
\* with a reading below T - H and left it in INSIDE_LIMIT, latch set.
C18_Witness ==
    /\ op = "tick"
    /\ config.highEnable
    /\ config.hysteresis = 0
    /\ env.Temperature < config.highThreshold - config.hysteresis
    /\ state["high"] = INSIDE_LIMIT
    /\ latch["high"]


\* What the accessor of monitor m returns when the monitor's statics are
\* mon (configuration and snapshot as they are).
Called(m, mon) ==
    CASE m = "high"    -> HighTemperatureEvents(config, mon.events, eventsLast[m], mon.latch).ret
      [] m = "low"     -> LowTemperatureEvents(config, mon.events, eventsLast[m], mon.latch).ret
      [] m = "humhigh" -> HighHumidityEvents(config, mon.events, eventsLast[m], mon.latch).ret
      [] m = "humlow"  -> LowHumidityEvents(config, mon.events, eventsLast[m], mon.latch).ret

\* Three readings that take monitor m from NORMAL over the threshold,
\* inside it and back to NORMAL.
CrossAndRecover(m) ==
    LET T == Threshold(config, m)
        H == Hysteresis(config, m)
    IN  IF m \in HighMonitors THEN <<T, T - 1, T - H>> ELSE <<T, T + 1, T + H>>

External ==
    {"POWER_SOURCE_VIN", "POWER_SOURCE_USB_HOST", "POWER_SOURCE_USB_ADAPTER",
     "POWER_SOURCE_USB_OTG"}

PowerNames == {"pwr_l", "pwr_r"}

\* C20: powerState remembers a classification, external at first; a call
\* publishes exactly when the source it reads is classified otherwise than
\* remembered, "pwr_l" when external power is lost and "pwr_r" when it is
\* back, and remembers the new classification; a call that reads a source
\* of the remembered classification publishes nothing; nothing else
\* publishes these names or changes what is remembered; so the names
\* published alternate, "pwr_l" first.
C20_PowerEdges ==
    [][/\ pc = "powerState" =>
            \A issued \in {(triggers' \ triggers) \cap PowerNames} :
                /\ oldPowerState' = (source' \in External)
                /\ issued # {} <=> (source' \in External) # oldPowerState
                /\ (oldPowerState /\ source' \notin External) =>
                      issued = {"pwr_l"} /\ lastPwr' = "pwr_l"
                /\ (~oldPowerState /\ source' \in External) =>
                      issued = {"pwr_r"} /\ lastPwr' = "pwr_r"
                /\ issued = {} => lastPwr' = lastPwr
                /\ issued # {} => issued # {lastPwr}
       /\ pc # "powerState" =>
            /\ UNCHANGED <<oldPowerState, lastPwr>>
            /\ (triggers' \ triggers) \cap PowerNames = {}
       /\ lastPwr' \in {"", "pwr_r"} <=> oldPowerState'
       /\ pc = "setup" => oldPowerState /\ lastPwr = ""
      ]_vars

\* External power has been lost and has just come back: powerState has
\* published "pwr_r", the name before it having been "pwr_l".
C20_Witness ==
    /\ op = "powerState"
    /\ source \in External
    /\ oldPowerState
    /\ lastPwr = "pwr_r"
    /\ "pwr_r" \in triggers

=============================================================================
